---- MODULE Spec2Model ----
(***************************************************************************)
(* flex-cache-redis: the two cache controllers RedisCache and              *)
(* FlexRedisCache (src/src) over a redis client, here the RedisMock of     *)
(* src/spec/FlexRedisCache.spec.ts: four stubs that record every call and  *)
(* return a promise the test settles at will.                              *)
(*                                                                         *)
(* A JavaScript value is a record [t, n, s, a, o]; a text is a sequence    *)
(* of one-character strings, so that JSON.stringify and JSON.parse are     *)
(* computed character by character.                                        *)
(***************************************************************************)
EXTENDS Integers, Sequences, FiniteSets

VARIABLES cache, calls, mock

vars == <<cache, calls, mock>>

(***************************************************************************)
(* JavaScript values                                                       *)
(***************************************************************************)
Val(t, n, s, a, o) == [t |-> t, n |-> n, s |-> s, a |-> a, o |-> o]

Undefined == Val("undefined", 0, <<>>, <<>>, <<>>)

Null == Val("null", 0, <<>>, <<>>, <<>>)

Bool(b) == Val("boolean", IF b THEN 1 ELSE 0, <<>>, <<>>, <<>>)

Num(n) == Val("number", n, <<>>, <<>>, <<>>)

Infinity == Val("infinity", 0, <<>>, <<>>, <<>>)

Str(s) == Val("string", 0, s, <<>>, <<>>)

Arr(a) == Val("array", 0, <<>>, a, <<>>)

Obj(o) == Val("object", 0, <<>>, <<>>, o)

Member(k, v) == [k |-> k, v |-> v]

\* typeof v
TypeOf(v) ==
    IF v.t = "infinity" THEN "number"
    ELSE IF v.t \in {"null", "array"} THEN "object"
    ELSE v.t

(***************************************************************************)
(* Texts                                                                   *)
(***************************************************************************)
Digit == <<"0", "1", "2", "3", "4", "5", "6", "7", "8", "9">>

DigitChars == {Digit[i] : i \in 1..10}

DigitVal(c) == (CHOOSE i \in 1..10 : Digit[i] = c) - 1

Drop(s, k) == SubSeq(s, k + 1, Len(s))

StartsWith(s, p) == Len(s) >= Len(p) /\ SubSeq(s, 1, Len(p)) = p

RECURSIVE NatToChars(_)
NatToChars(n) ==
    IF n < 10 THEN <<Digit[n + 1]>>
    ELSE NatToChars(n \div 10) \o <<Digit[(n % 10) + 1]>>

IntToChars(n) == IF n < 0 THEN <<"-">> \o NatToChars(-n) ELSE NatToChars(n)

(***************************************************************************)
(* JSON.stringify(value), without indentation or replacer.  Serialize is   *)
(* SerializeJSONProperty for the values of this model: an undefined        *)
(* array element is written null, an undefined member is left out, a       *)
(* non-finite number is written null.  Strings hold no character that      *)
(* needs an escape.                                                        *)
(***************************************************************************)
RECURSIVE Serialize(_), SerializeElements(_, _), SerializeMembers(_, _, _)
Serialize(v) ==
    IF v.t = "null" THEN <<"n", "u", "l", "l">>
    ELSE IF v.t = "boolean" THEN
        (IF v.n = 1 THEN <<"t", "r", "u", "e">> ELSE <<"f", "a", "l", "s", "e">>)
    ELSE IF v.t = "number" THEN IntToChars(v.n)
    ELSE IF v.t = "infinity" THEN <<"n", "u", "l", "l">>
    ELSE IF v.t = "string" THEN <<"\"">> \o v.s \o <<"\"">>
    ELSE IF v.t = "array" THEN <<"[">> \o SerializeElements(v.a, 1) \o <<"]">>
    ELSE <<"{">> \o SerializeMembers(v.o, 1, TRUE) \o <<"}">>

SerializeElements(a, i) ==
    IF i > Len(a) THEN <<>>
    ELSE (IF i > 1 THEN <<",">> ELSE <<>>)
         \o (IF a[i].t = "undefined" THEN <<"n", "u", "l", "l">> ELSE Serialize(a[i]))
         \o SerializeElements(a, i + 1)

SerializeMembers(o, i, first) ==
    IF i > Len(o) THEN <<>>
    ELSE IF o[i].v.t = "undefined" THEN SerializeMembers(o, i + 1, first)
    ELSE (IF first THEN <<>> ELSE <<",">>)
         \o <<"\"">> \o o[i].k \o <<"\"", ":">> \o Serialize(o[i].v)
         \o SerializeMembers(o, i + 1, FALSE)

\* JSON.stringify(v): undefined for undefined, else the text as a string
JSONStringify(v) == IF v.t = "undefined" THEN Undefined ELSE Str(Serialize(v))

(***************************************************************************)
(* JSON.parse(text): a recursive-descent parser of the JSON grammar for    *)
(* null, true, false, integers, strings without escapes, arrays and        *)
(* objects, with blanks between tokens.  A parse is [ok, v, rest].         *)
(***************************************************************************)
ParseFail == [ok |-> FALSE, v |-> Undefined, rest |-> <<>>]

ParseOk(v, rest) == [ok |-> TRUE, v |-> v, rest |-> rest]

RECURSIVE SkipWs(_)
SkipWs(s) == IF s # <<>> /\ s[1] = " " THEN SkipWs(Tail(s)) ELSE s

RECURSIVE ParseDigits(_, _)
ParseDigits(s, acc) ==
    IF s # <<>> /\ s[1] \in DigitChars
    THEN ParseDigits(Tail(s), acc * 10 + DigitVal(s[1]))
    ELSE [n |-> acc, rest |-> s]

ParseNumber(s) ==
    LET neg  == s # <<>> /\ s[1] = "-"
        body == IF neg THEN Tail(s) ELSE s
    IN  IF body = <<>> THEN ParseFail
        ELSE IF body[1] \notin DigitChars THEN ParseFail
        ELSE IF body[1] = "0" THEN ParseOk(Num(0), Tail(body))
        ELSE LET d == ParseDigits(body, 0)
             IN  ParseOk(Num(IF neg THEN -d.n ELSE d.n), d.rest)

\* s starts after the opening quote
RECURSIVE ParseChars(_, _)
ParseChars(s, acc) ==
    IF s = <<>> THEN ParseFail
    ELSE IF s[1] = "\"" THEN ParseOk(Str(acc), Tail(s))
    ELSE IF s[1] = "\\" THEN ParseFail
    ELSE ParseChars(Tail(s), Append(acc, s[1]))

ParseString(s) ==
    IF s # <<>> /\ s[1] = "\"" THEN ParseChars(Tail(s), <<>>) ELSE ParseFail

RECURSIVE ParseValue(_), ParseElements(_, _), ParseMembers(_, _)
ParseValue(s0) ==
    LET s == SkipWs(s0)
    IN  IF s = <<>> THEN ParseFail
        ELSE IF StartsWith(s, <<"n", "u", "l", "l">>) THEN ParseOk(Null, Drop(s, 4))
        ELSE IF StartsWith(s, <<"t", "r", "u", "e">>) THEN ParseOk(Bool(TRUE), Drop(s, 4))
        ELSE IF StartsWith(s, <<"f", "a", "l", "s", "e">>) THEN ParseOk(Bool(FALSE), Drop(s, 5))
        ELSE IF s[1] = "\"" THEN ParseString(s)
        ELSE IF s[1] = "[" THEN
            LET r == SkipWs(Tail(s))
            IN  IF r # <<>> /\ r[1] = "]" THEN ParseOk(Arr(<<>>), Tail(r))
                ELSE ParseElements(Tail(s), <<>>)
        ELSE IF s[1] = "{" THEN
            LET r == SkipWs(Tail(s))
            IN  IF r # <<>> /\ r[1] = "}" THEN ParseOk(Obj(<<>>), Tail(r))
                ELSE ParseMembers(Tail(s), <<>>)
        ELSE ParseNumber(s)

ParseElements(s, acc) ==
    LET e == ParseValue(s)
        r == SkipWs(e.rest)
    IN  IF ~e.ok THEN ParseFail
        ELSE IF r = <<>> THEN ParseFail
        ELSE IF r[1] = "," THEN ParseElements(Tail(r), Append(acc, e.v))
        ELSE IF r[1] = "]" THEN ParseOk(Arr(Append(acc, e.v)), Tail(r))
        ELSE ParseFail

ParseMembers(s, acc) ==
    LET k == ParseString(SkipWs(s))
        c == SkipWs(k.rest)
        e == ParseValue(Tail(c))
        r == SkipWs(e.rest)
    IN  IF ~k.ok THEN ParseFail
        ELSE IF c = <<>> THEN ParseFail
        ELSE IF c[1] # ":" THEN ParseFail
        ELSE IF ~e.ok THEN ParseFail
        ELSE IF r = <<>> THEN ParseFail
        ELSE IF r[1] = "," THEN ParseMembers(Tail(r), Append(acc, Member(k.v.s, e.v)))
        ELSE IF r[1] = "}" THEN ParseOk(Obj(Append(acc, Member(k.v.s, e.v))), Tail(r))
        ELSE ParseFail

\* ToString(v), the coercion JSON.parse applies to its argument
RECURSIVE JsToString(_), JoinElements(_, _)
JsToString(v) ==
    IF v.t = "string" THEN v.s
    ELSE IF v.t = "undefined" THEN <<"u", "n", "d", "e", "f", "i", "n", "e", "d">>
    ELSE IF v.t = "infinity" THEN <<"I", "n", "f", "i", "n", "i", "t", "y">>
    ELSE IF v.t = "array" THEN JoinElements(v.a, 1)
    ELSE IF v.t = "object" THEN
        <<"[", "o", "b", "j", "e", "c", "t", " ", "O", "b", "j", "e", "c", "t", "]">>
    ELSE Serialize(v)

JoinElements(a, i) ==
    IF i > Len(a) THEN <<>>
    ELSE (IF i > 1 THEN <<",">> ELSE <<>>)
         \o (IF a[i].t \in {"undefined", "null"} THEN <<>> ELSE JsToString(a[i]))
         \o JoinElements(a, i + 1)

\* JSON.parse(v): [ok, v]; ~ok is a thrown SyntaxError
JSONParse(v) ==
    LET p == ParseValue(JsToString(v))
    IN  IF p.ok /\ SkipWs(p.rest) = <<>> THEN [ok |-> TRUE, v |-> p.v]
        ELSE [ok |-> FALSE, v |-> Undefined]


(***************************************************************************)
(* Errors and promises.  An error object has an identity, ref: the errors  *)
(* the store rejects with are distinct objects with one message; an error  *)
(* a call creates is a new object of that call.                            *)
(***************************************************************************)
ErrorObject(ctor, message, by, n) ==
    [ctor |-> ctor, message |-> message, ref |-> [by |-> by, n |-> n]]

NoError == ErrorObject("", "", "", 0)

\* const exception = new Error('Test error')
StoreError(i) == ErrorObject("Error", "Test error", "store", i)

StoreErrors == {StoreError(1), StoreError(2)}

Pending == [state |-> "pending", value |-> Undefined, reason |-> NoError]

Fulfilled(v) == [state |-> "fulfilled", value |-> v, reason |-> NoError]

Rejected(e) == [state |-> "rejected", value |-> Undefined, reason |-> e]

\* a call that throws before it returns a promise
Thrown(e) == [state |-> "thrown", value |-> Undefined, reason |-> e]

\* a new error object with the reason's constructor and message
WrappedReason(reason) == ErrorObject(reason.ctor, reason.message, "wrap", reason.ref.n)

\* promise.then(onFulfilled) of a rejected promise: no onRejected is given, so
\* the derived promise is rejected with the same reason
ThenWithoutOnRejected(reason) == reason

(***************************************************************************)
(* The state.  cache is the class of the one cache object of a test.       *)
(* calls[c] is the c-th call made on it: its method and arguments, the     *)
(* settlement the store's promise got (reply), the promise the call        *)
(* returned (result), and whether its callback reached JSON.parse.  mock   *)
(* is the RedisMock's record of the calls made on its stubs, in order,     *)
(* each with the call that made it.                                        *)
(***************************************************************************)
MaxCalls == 1

MaxConcurrent == 2

CallIds == 1..MaxCalls

ConcurrentIds == 1..MaxConcurrent

Idle ==
    [pc |-> "idle", method |-> "", args |-> <<>>,
     reply |-> Pending, result |-> Pending, parsed |-> FALSE]

Started(method, args) ==
    [pc |-> "pending", method |-> method, args |-> args,
     reply |-> Pending, result |-> Pending, parsed |-> FALSE]

Ended(method, args, result) ==
    [pc |-> "done", method |-> method, args |-> args,
     reply |-> Pending, result |-> result, parsed |-> FALSE]

Command(c, cmd, args) == [by |-> c, cmd |-> cmd, args |-> args]

\* the call c is made: it returns `result` without calling the store
Return(c, method, args, result) ==
    /\ calls' = [calls EXCEPT ![c] = Ended(method, args, result)]
    /\ UNCHANGED <<cache, mock>>

\* as Issue, but a call whose command another call still awaits shares that
\* call's round trip
CoalescedIssue(c, method, args, cmd, cmdArgs) ==
    /\ calls' = [calls EXCEPT ![c] = Started(method, args)]
    /\ mock' = IF \E i \in 1..Len(mock) :
                     /\ mock[i].cmd = cmd
                     /\ mock[i].args = cmdArgs
                     /\ calls[mock[i].by].pc = "pending"
               THEN mock
               ELSE Append(mock, Command(c, cmd, cmdArgs))
    /\ UNCHANGED cache

\* the call c is made: it calls the stub cmd and returns the derived promise
Issue(c, method, args, cmd, cmdArgs) ==
    /\ calls' = [calls EXCEPT ![c] = Started(method, args)]
    /\ mock' = Append(mock, Command(c, cmd, cmdArgs))
    /\ UNCHANGED cache

\* the store's promise of call c settles and the call's callback has run
Settle(c, reply, result, parsed) ==
    /\ calls' = [calls EXCEPT ![c] =
                    [@ EXCEPT !.pc = "done", !.reply = reply,
                              !.result = result, !.parsed = parsed]]
    /\ UNCHANGED <<cache, mock>>

Awaiting(c, cls, method) ==
    /\ cache = cls
    /\ c \in DOMAIN calls
    /\ calls[c].pc = "pending"
    /\ calls[c].method = method

CanCall(c, cls) == cache = cls /\ c \in DOMAIN calls /\ calls[c].pc = "idle"

(***************************************************************************)
(* Numbers                                                                 *)
(***************************************************************************)
MsPerSecond == 1000

\* ttl <= 0
NotPositive(ttl) == ttl.t = "number" /\ ttl.n <= 0

\* ttl === Infinity
IsInfinity(ttl) == ttl.t = "infinity"

\* Math.floor(n / d)
MathFloor(n, d) == Num(n.n \div d)

\* Math.ceil(n / d) of a finite n, d > 0
MathCeil(n, d) == Num(-((-n.n) \div d))

(***************************************************************************)
(* class RedisCache                                                        *)
(***************************************************************************)
RedisCache_delete(c, name) ==
    /\ CanCall(c, "RedisCache")
    /\ Issue(c, "delete", <<name>>, "del", <<name>>)

RedisCache_delete_then(c, reply) ==
    /\ Awaiting(c, "RedisCache", "delete")
    /\ Settle(c, reply,
              IF reply.state = "rejected"
              THEN Rejected(ThenWithoutOnRejected(reply.reason))
              ELSE Fulfilled(Undefined),
              FALSE)

RedisCache_get(c, name) ==
    /\ CanCall(c, "RedisCache")
    /\ Issue(c, "get", <<name>>, "get", <<name>>)

\* data === null
OnlyNull(data) == data.t = "null"

\* typeof data !== 'string'
RedisCache_notString(data) == TypeOf(data) # "string"

RedisCache_get_then(c, reply) ==
    /\ Awaiting(c, "RedisCache", "get")
    /\ IF reply.state = "rejected"
       THEN Settle(c, reply, Rejected(ThenWithoutOnRejected(reply.reason)), FALSE)
       ELSE IF RedisCache_notString(reply.value)
       THEN Settle(c, reply, Fulfilled(Null), FALSE)
       ELSE LET p == JSONParse(reply.value)
            IN  Settle(c, reply,
                       IF p.ok THEN Fulfilled(p.v)
                       ELSE Rejected(ErrorObject("SyntaxError", "Unexpected token", "call", c)),
                       TRUE)

\* no check of the value
NeverUndefined(data) == FALSE

\* data === undefined
RedisCache_dataUndefined(data) == data.t = "undefined"

RedisCache_set(c, name, data, ttl) ==
    /\ CanCall(c, "RedisCache")
    /\ IF RedisCache_dataUndefined(data)
       THEN Return(c, "set", <<name, data, ttl>>,
                   Rejected(ErrorObject("Error", "Data is not defined", "call", c)))
       ELSE IF IsInfinity(ttl)
       THEN Issue(c, "set", <<name, data, ttl>>,
                  "set", <<name, JSONStringify(data)>>)
       ELSE Issue(c, "set", <<name, data, ttl>>,
                  "setex", <<name, MathCeil(ttl, MsPerSecond), JSONStringify(data)>>)

RedisCache_set_then(c, reply) ==
    /\ Awaiting(c, "RedisCache", "set")
    /\ Settle(c, reply,
              IF reply.state = "rejected"
              THEN Rejected(ThenWithoutOnRejected(reply.reason))
              ELSE Fulfilled(Undefined),
              FALSE)

(***************************************************************************)
(* class FlexRedisCache                                                    *)
(***************************************************************************)
FlexRedisCache_delete(c, name) ==
    /\ CanCall(c, "FlexRedisCache")
    /\ Issue(c, "delete", <<name>>, "del", <<name>>)

FlexRedisCache_delete_then(c, reply) ==
    /\ Awaiting(c, "FlexRedisCache", "delete")
    /\ Settle(c, reply,
              IF reply.state = "rejected"
              THEN Rejected(ThenWithoutOnRejected(reply.reason))
              ELSE Fulfilled(Undefined),
              FALSE)

FlexRedisCache_get(c, name) ==
    /\ CanCall(c, "FlexRedisCache")
    /\ Issue(c, "get", <<name>>, "get", <<name>>)

\* typeof data !== 'string'
FlexRedisCache_notString(data) == TypeOf(data) # "string"

FlexRedisCache_get_then(c, reply) ==
    /\ Awaiting(c, "FlexRedisCache", "get")
    /\ IF reply.state = "rejected"
       THEN Settle(c, reply, Rejected(ThenWithoutOnRejected(reply.reason)), FALSE)
       ELSE IF FlexRedisCache_notString(reply.value)
       THEN Settle(c, reply, Fulfilled(Null), FALSE)
       ELSE LET p == JSONParse(reply.value)
            IN  Settle(c, reply,
                       IF p.ok THEN Fulfilled(p.v)
                       ELSE Rejected(ErrorObject("SyntaxError", "Unexpected token", "call", c)),
                       TRUE)

\* data === undefined
FlexRedisCache_dataUndefined(data) == data.t = "undefined"

FlexRedisCache_set(c, name, data, ttl) ==
    /\ CanCall(c, "FlexRedisCache")
    /\ IF NotPositive(ttl)
       THEN Return(c, "set", <<name, data, ttl>>,
                   Rejected(ErrorObject("Error", "TTL must be positive number", "call", c)))
       ELSE IF FlexRedisCache_dataUndefined(data)
       THEN Return(c, "set", <<name, data, ttl>>,
                   Rejected(ErrorObject("TypeError", "Data is not defined", "call", c)))
       ELSE IF IsInfinity(ttl)
       THEN Issue(c, "set", <<name, data, ttl>>,
                  "set", <<name, JSONStringify(data)>>)
       ELSE Issue(c, "set", <<name, data, ttl>>,
                  "setex", <<name, MathCeil(ttl, MsPerSecond), JSONStringify(data)>>)

FlexRedisCache_set_then(c, reply) ==
    /\ Awaiting(c, "FlexRedisCache", "set")
    /\ Settle(c, reply,
              IF reply.state = "rejected"
              THEN Rejected(ThenWithoutOnRejected(reply.reason))
              ELSE Fulfilled(Undefined),
              FALSE)

\* cache.update(...) and cache.setForce(...), as the tests call them: the class
\* has no such member, so the call throws a TypeError before anything else
FlexRedisCache_update(c, name, data, ttl) ==
    /\ CanCall(c, "FlexRedisCache")
    /\ Return(c, "update", <<name, data, ttl>>,
              Thrown(ErrorObject("TypeError", "cache.update is not a function", "call", c)))

FlexRedisCache_setForce(c, name, data, ttl) ==
    /\ CanCall(c, "FlexRedisCache")
    /\ Return(c, "setForce", <<name, data, ttl>>,
              Thrown(ErrorObject("TypeError", "cache.setForce is not a function", "call", c)))

(***************************************************************************)
(* The calls a test makes and the settlements it gives the stubs           *)
(***************************************************************************)
KeyA == Str(<<"a">>)

KeyB == Str(<<"b">>)

ResultGet == Obj(<<Member(<<"r", "e", "s", "u", "l", "t">>, Str(<<"g", "e", "t">>))>>)

\* '{"result":"get"}'
GetResultText ==
    <<"{", "\"", "r", "e", "s", "u", "l", "t", "\"", ":", "\"", "g", "e", "t", "\"", "}">>

OK == Str(<<"O", "K">>)

Names == {KeyA, KeyB}

Datas == {Undefined, Num(123), ResultGet}

TTLs == {Num(-5000), Num(0), Num(4999), Num(5000), Num(5001), Infinity}

WriteReplies ==
    {Fulfilled(OK), Fulfilled(Str(<<"o", "k">>)), Fulfilled(Str(<<"E", "R", "R">>)),
     Fulfilled(Null)}
    \cup {Rejected(e) : e \in StoreErrors}

GetReplies ==
    {Fulfilled(v) : v \in {Null, Undefined, Num(123), Arr(<<>>), Obj(<<>>)}}
    \cup {Fulfilled(Str(t)) : t \in
            {GetResultText,
             <<"n", "u", "l", "l">>,
             <<"\"", "\"">>,
             <<"1", "2", "3">>,
             <<"[", "1", ",", " ", "\"", "a", "\"", "]">>,
             <<>>,
             <<"a", "s", "d">>,
             <<"[", "a", "s", "d", "]">>,
             <<"{", "a", "s", "d", ":", "1", "2", "3", "}">>}}
    \cup {Rejected(e) : e \in StoreErrors}

DelReplies ==
    {Fulfilled(Num(1)), Fulfilled(Num(0))} \cup {Rejected(e) : e \in StoreErrors}

ConcurrentDatas == {Undefined, Num(123)}

ConcurrentTTLs == {Num(0), Num(4999), Infinity}

ConcurrentWriteReplies == {Fulfilled(OK), Fulfilled(Null), Rejected(StoreError(1))}

ConcurrentGetReplies ==
    {Fulfilled(Null), Fulfilled(Str(<<"1", "2", "3">>)), Rejected(StoreError(1))}

ConcurrentDelReplies == {Fulfilled(Num(1)), Rejected(StoreError(1))}

\* beforeEach: a new mock and a new cache; no call made yet
Classes == {"RedisCache", "FlexRedisCache"}

Init ==
    /\ cache \in Classes
    /\ calls = [c \in CallIds |-> Idle]
    /\ mock = <<>>

Next ==
    \E c \in CallIds :
        \/ \E name \in Names : RedisCache_delete(c, name)
        \/ \E reply \in DelReplies : RedisCache_delete_then(c, reply)
        \/ \E name \in Names : RedisCache_get(c, name)
        \/ \E reply \in GetReplies : RedisCache_get_then(c, reply)
        \/ \E name \in Names, data \in Datas, ttl \in TTLs : RedisCache_set(c, name, data, ttl)
        \/ \E reply \in WriteReplies : RedisCache_set_then(c, reply)
        \/ \E name \in Names : FlexRedisCache_delete(c, name)
        \/ \E reply \in DelReplies : FlexRedisCache_delete_then(c, reply)
        \/ \E name \in Names : FlexRedisCache_get(c, name)
        \/ \E reply \in GetReplies : FlexRedisCache_get_then(c, reply)
        \/ \E name \in Names, data \in Datas, ttl \in TTLs : FlexRedisCache_set(c, name, data, ttl)
        \/ \E reply \in WriteReplies : FlexRedisCache_set_then(c, reply)
        \/ \E name \in Names, data \in Datas, ttl \in TTLs : FlexRedisCache_update(c, name, data, ttl)
        \/ \E name \in Names, data \in Datas, ttl \in TTLs : FlexRedisCache_setForce(c, name, data, ttl)

Spec == Init /\ [][Next]_vars

\* several calls in flight on the one cache object, in any interleaving
ConcurrentInit ==
    /\ cache \in Classes
    /\ calls = [c \in ConcurrentIds |-> Idle]
    /\ mock = <<>>

ConcurrentNext ==
    \E c \in ConcurrentIds :
        \/ \E name \in Names : RedisCache_delete(c, name)
        \/ \E reply \in ConcurrentDelReplies : RedisCache_delete_then(c, reply)
        \/ \E name \in Names : RedisCache_get(c, name)
        \/ \E reply \in ConcurrentGetReplies : RedisCache_get_then(c, reply)
        \/ \E name \in Names, data \in ConcurrentDatas, ttl \in ConcurrentTTLs :
              RedisCache_set(c, name, data, ttl)
        \/ \E reply \in ConcurrentWriteReplies : RedisCache_set_then(c, reply)
        \/ \E name \in Names : FlexRedisCache_delete(c, name)
        \/ \E reply \in ConcurrentDelReplies : FlexRedisCache_delete_then(c, reply)
        \/ \E name \in Names : FlexRedisCache_get(c, name)
        \/ \E reply \in ConcurrentGetReplies : FlexRedisCache_get_then(c, reply)
        \/ \E name \in Names, data \in ConcurrentDatas, ttl \in ConcurrentTTLs :
              FlexRedisCache_set(c, name, data, ttl)
        \/ \E reply \in ConcurrentWriteReplies : FlexRedisCache_set_then(c, reply)

ConcurrentSpec == ConcurrentInit /\ [][ConcurrentNext]_vars

(***************************************************************************)
(* What the claims speak of                                                *)
(***************************************************************************)
Made(c) == calls[c].pc # "idle"

Done(c) == calls[c].pc = "done"

MethodOf(c) == calls[c].method

NameOf(c) == calls[c].args[1]

DataOf(c) == calls[c].args[2]

TtlOf(c) == calls[c].args[3]

IsWrite(c) == MethodOf(c) \in {"set", "update", "setForce"}

\* the store calls the call c made, in order
CommandsOf(c) ==
    LET mine == SelectSeq(mock, LAMBDA m : m.by = c)
    IN  [i \in 1..Len(mine) |-> [cmd |-> mine[i].cmd, args |-> mine[i].args]]

Cmd(cmd, args) == [cmd |-> cmd, args |-> args]

PX == Str(<<"P", "X">>)

NX == Str(<<"N", "X">>)

XX == Str(<<"X", "X">>)

FinitePositive(ttl) == ttl.t = "number" /\ ttl.n > 0

\* a status that equals "OK" whatever the case of its letters
IsOK(v) ==
    /\ v.t = "string"
    /\ Len(v.s) = 2
    /\ v.s[1] \in {"O", "o"}
    /\ v.s[2] \in {"K", "k"}

\* C1: FlexRedisCache.set with a defined value and a finite ttl > 0 makes one store
\* call, set(k, encode(v), "PX", ttl, "NX"), and no setex call.
C1_FlexSetIssuesPxNx ==
    \A c \in DOMAIN calls :
        (/\ cache = "FlexRedisCache"
         /\ Made(c)
         /\ MethodOf(c) = "set"
         /\ DataOf(c) # Undefined
         /\ FinitePositive(TtlOf(c)))
        => CommandsOf(c) =
             <<Cmd("set", <<NameOf(c), JSONStringify(DataOf(c)), PX, TtlOf(c), NX>>)>>

\* C2: in FlexRedisCache a write whose store call resolved is fulfilled only when
\* the status is "OK" in any case, and is rejected for every other status.
C2_FlexRejectsNonOkStatus ==
    \A c \in DOMAIN calls :
        (/\ cache = "FlexRedisCache"
         /\ IsWrite(c)
         /\ Done(c)
         /\ calls[c].reply.state = "fulfilled")
        => IF IsOK(calls[c].reply.value)
           THEN calls[c].result = Fulfilled(Undefined)
           ELSE calls[c].result.state = "rejected"

\* C3: FlexRedisCache.update with a defined value and a positive or infinite ttl
\* returns a promise and makes one store call with the XX flag:
\* set(k, encode(v), "PX", ttl, "XX"), or set(k, encode(v), "XX") for Infinity.
C3_FlexUpdateIssuesXx ==
    \A c \in DOMAIN calls :
        (/\ cache = "FlexRedisCache"
         /\ Made(c)
         /\ MethodOf(c) = "update"
         /\ DataOf(c) # Undefined
         /\ (FinitePositive(TtlOf(c)) \/ IsInfinity(TtlOf(c))))
        => /\ calls[c].result.state # "thrown"
           /\ CommandsOf(c) =
                IF IsInfinity(TtlOf(c))
                THEN <<Cmd("set", <<NameOf(c), JSONStringify(DataOf(c)), XX>>)>>
                ELSE <<Cmd("set", <<NameOf(c), JSONStringify(DataOf(c)), PX, TtlOf(c), XX>>)>>

\* C4: FlexRedisCache.setForce with a defined value and a positive or infinite ttl
\* returns a promise and makes one store call with no existence flag:
\* set(k, encode(v), "PX", ttl), or set(k, encode(v)) for Infinity.
C4_FlexSetForceUnconditional ==
    \A c \in DOMAIN calls :
        (/\ cache = "FlexRedisCache"
         /\ Made(c)
         /\ MethodOf(c) = "setForce"
         /\ DataOf(c) # Undefined
         /\ (FinitePositive(TtlOf(c)) \/ IsInfinity(TtlOf(c))))
        => /\ calls[c].result.state # "thrown"
           /\ CommandsOf(c) =
                IF IsInfinity(TtlOf(c))
                THEN <<Cmd("set", <<NameOf(c), JSONStringify(DataOf(c))>>)>>
                ELSE <<Cmd("set", <<NameOf(c), JSONStringify(DataOf(c)), PX, TtlOf(c)>>)>>

\* C5: in FlexRedisCache set, update and setForce with ttl <= 0 return a promise
\* rejected with the TTL validation error, and the call makes no store call.
C5_FlexNonPositiveTtlRejected ==
    \A c \in DOMAIN calls :
        (/\ cache = "FlexRedisCache"
         /\ Made(c)
         /\ IsWrite(c)
         /\ NotPositive(TtlOf(c)))
        => /\ Done(c)
           /\ calls[c].result.state = "rejected"
           /\ calls[c].result.reason.message = "TTL must be positive number"
           /\ CommandsOf(c) = <<>>

\* C6: in both classes set(k, undefined, ttl) is rejected for every ttl, at once and
\* with no store call: the mock records nothing for the call.
C6_SetUndefinedRejected ==
    \A c \in DOMAIN calls :
        (/\ Made(c)
         /\ MethodOf(c) = "set"
         /\ DataOf(c) = Undefined)
        => /\ Done(c)
           /\ calls[c].result.state = "rejected"
           /\ calls[c].reply = Pending
           /\ CommandsOf(c) = <<>>

C6_Witness ==
    \E c \in DOMAIN calls :
        /\ cache = "RedisCache"
        /\ MethodOf(c) = "set"
        /\ DataOf(c) = Undefined
        /\ TtlOf(c) = Infinity
        /\ calls[c].result.state = "rejected"
        /\ mock = <<>>

\* C7: when the store call of a get, delete or write is rejected with the error e,
\* the call's promise is rejected with that very object e, and the call made that
\* one store call only (no retry, no fallback value).
C7_StoreErrorPropagates ==
    \A c \in DOMAIN calls :
        (Done(c) /\ calls[c].reply.state = "rejected")
        => /\ calls[c].reply.reason \in StoreErrors
           /\ calls[c].result = Rejected(calls[c].reply.reason)
           /\ Len(CommandsOf(c)) = 1

C7_Witness ==
    \E c \in DOMAIN calls :
        /\ cache = "FlexRedisCache"
        /\ MethodOf(c) = "set"
        /\ Done(c)
        /\ calls[c].reply = Rejected(StoreError(2))
        /\ calls[c].result.reason = StoreError(2)

\* C8: get(k) makes exactly one store call, get(k); when it resolves with a value
\* that is not a string the call is fulfilled with null, and JSON.parse is reached
\* only for a string.
C8_GetNonTextIsNull ==
    \A c \in DOMAIN calls :
        (Made(c) /\ MethodOf(c) = "get")
        => /\ CommandsOf(c) = <<Cmd("get", <<NameOf(c)>>)>>
           /\ (Done(c) /\ calls[c].reply.state = "fulfilled"
                       /\ calls[c].reply.value.t # "string")
              => calls[c].result = Fulfilled(Null)
           /\ calls[c].parsed
              => (calls[c].reply.state = "fulfilled" /\ calls[c].reply.value.t = "string")

C8_Witness ==
    \E c \in DOMAIN calls :
        /\ MethodOf(c) = "get"
        /\ Done(c)
        /\ calls[c].reply = Fulfilled(Num(123))
        /\ calls[c].result = Fulfilled(Null)
        /\ ~calls[c].parsed

\* C9: RedisCache.set with a defined value makes exactly one store call:
\* setex(k, s, encode(v)) for a finite ttl, s the least integer with
\* s * 1000 >= ttl (4999 -> 5, 5000 -> 5, 5001 -> 6), and set(k, encode(v)) for
\* Infinity; when the store call resolves, whatever the status, the call is
\* fulfilled with undefined.
C9_SimpleSetCeilSeconds ==
    \A c \in DOMAIN calls :
        (/\ cache = "RedisCache"
         /\ Made(c)
         /\ MethodOf(c) = "set"
         /\ DataOf(c) # Undefined)
        => /\ Len(CommandsOf(c)) = 1
           /\ LET m == CommandsOf(c)[1]
              IN  IF IsInfinity(TtlOf(c))
                  THEN m = Cmd("set", <<NameOf(c), JSONStringify(DataOf(c))>>)
                  ELSE /\ m.cmd = "setex"
                       /\ Len(m.args) = 3
                       /\ m.args[1] = NameOf(c)
                       /\ m.args[2].t = "number"
                       /\ m.args[2].n * 1000 >= TtlOf(c).n
                       /\ (m.args[2].n - 1) * 1000 < TtlOf(c).n
                       /\ (TtlOf(c).n \in {4999, 5000}) => m.args[2].n = 5
                       /\ (TtlOf(c).n = 5001) => m.args[2].n = 6
                       /\ m.args[3] = JSONStringify(DataOf(c))
           /\ (Done(c) /\ calls[c].reply.state = "fulfilled")
              => calls[c].result = Fulfilled(Undefined)

C9_Witness ==
    \E c \in DOMAIN calls :
        /\ cache = "RedisCache"
        /\ MethodOf(c) = "set"
        /\ TtlOf(c) = Num(4999)
        /\ CommandsOf(c) = <<Cmd("setex", <<KeyA, Num(5), Str(<<"1", "2", "3">>)>>)>>
        /\ calls[c].reply = Fulfilled(Str(<<"E", "R", "R">>))
        /\ calls[c].result = Fulfilled(Undefined)

\* the validation of set fails: the value is undefined or, in FlexRedisCache,
\* the ttl is not positive
ValidationFails(c) ==
    \/ DataOf(c) = Undefined
    \/ cache = "FlexRedisCache" /\ NotPositive(TtlOf(c))

====
